---- MODULE Spec2Model ----
(***************************************************************************)
(* Model of src/benchmark.py: the peak-memory/time profiler                *)
(* (monitor_memory, measure_peak_memory_and_time), the benchmark driver    *)
(* with its query loop, and the top-level script.                          *)
(*                                                                         *)
(* Python positions are 0-based, TLA+ sequences 1-based: the source's      *)
(* gt_indices[i] is gt_indices[i + 1] here.  A recall sample hits / k is   *)
(* kept as the exact fraction <<hits, k>>.  Variables that only record     *)
(* what happened (samples, stopAt, cellWrites, eventReads, buildArgs,      *)
(* queryLog, userKwargs) are history variables; no action reads them,      *)
(* apart from the cap on the number of samples.                            *)
(***************************************************************************)
EXTENDS Integers, Sequences, FiniteSets, TLC

(* ----------------------------- bounds --------------------------------- *)
MaxCalls == 2      \* calls of measure_peak_memory_and_time in one process
MaxSamples == 2    \* loop iterations one sampler thread is followed for
MaxMem == 2        \* memory readings are 1..MaxMem (MB)
MaxQueries == 2    \* ground-truth entries of a loaded benchmark file
MaxNN == 1         \* neighbours get_anns returns inside the driver
MaxIdx == 2        \* corpus positions are 1..MaxIdx
MaxGT == 2         \* ground-truth row length in the recall computation

(* ------------------------- program constants --------------------------- *)
DefaultK == 10
k_values == <<1, 10>>

(* ----------------------------- input sets ------------------------------ *)
Calls == 1..MaxCalls
Mem == 1..MaxMem
Idx == 1..MaxIdx
Durations == {0, 1}
WidthValues == {5, DefaultK}
OptionKeys == {"k", "n_trees"}
OptionValues(key) == IF key = "k" THEN WidthValues ELSE {7}

SeqsUpTo(S, n) == UNION {[1..m -> S] : m \in 0..n}

EmptyMap == [key \in {} |-> 0]
\* json.loads(args.index_kwargs): the maps a user can pass
UserMaps == UNION {{f \in [D -> WidthValues \cup {7}] : \A key \in D : f[key] \in OptionValues(key)} : D \in SUBSET OptionKeys}

\* rows of gt_indices: the corpus positions in ascending or descending order
GTRows == {[j \in Idx |-> j], [j \in Idx |-> MaxIdx + 1 - j]}
\* benchmark_data[:, 0, :] of a loaded file
GTData == SeqsUpTo(GTRows, MaxQueries)
\* the dataset of the whole-program specification: no query, or one
DriverGT == {gt \in GTData : Len(gt) <= 1}
\* neighbour lists get_anns returns inside the driver
NNLists == SeqsUpTo(Idx, MaxNN)
\* inputs of the recall computation on its own
MaxReturned == k_values[Len(k_values)]
RecallNN == SeqsUpTo(Idx, MaxReturned)
RecallGT == SeqsUpTo(Idx, MaxGT)

(* ------------------------------- state --------------------------------- *)
VARIABLES
  mpc,                \* position of the primary thread
  error,              \* the exception propagating out of the primary thread
  index_kwargs,       \* benchmark's options map (mutated in place)
  k,                  \* benchmark's local k (0: not bound yet)
  res,                \* benchmark's result record
  ret,                \* dict returned by measure_peak_memory_and_time
  execution_time,     \* local of measure_peak_memory_and_time
  ncalls,             \* calls of measure_peak_memory_and_time made; the
                      \* current call's monitor_thread is threads[ncalls]
  stop_event,         \* global stop_event: the call whose Event it is bound to
  peak_memory_usage,  \* global peak_memory_usage: the call whose list it is
  events,             \* is_set flag of the Event each call created
  cells,              \* element [0] of the list each call created
  threads,            \* sampler threads: pc and local peak_memory
  gt_indices, i, nn_indices, recalls, query_times,   \* query loop locals
  csv,                \* the CSV file has been written
  samples,            \* history: readings each sampler thread took
  stopAt,             \* history: readings the target's sampler had taken when
                      \* its Event was set (-1: never set)
  cellWrites,         \* history: threads that wrote each call's list
  eventReads,         \* history: Events each thread tested
  buildArgs,          \* history: arguments of each call of func
  queryLog,           \* history: each get_anns call and its outcome
  userKwargs          \* history: index_kwargs as passed by the user

vars == <<mpc, error, index_kwargs, k, res, ret, execution_time, ncalls,
          stop_event, peak_memory_usage, events, cells, threads,
          gt_indices, i, nn_indices, recalls, query_times, csv,
          samples, stopAt, cellWrites, eventReads, buildArgs, queryLog,
          userKwargs>>

measureVars == <<ret, execution_time, ncalls, stop_event, peak_memory_usage,
                 events, cells, threads, samples, stopAt, cellWrites,
                 eventReads, buildArgs>>
driverVars == <<index_kwargs, k, res, csv, userKwargs>>
queryVars == <<gt_indices, i, nn_indices, recalls, query_times, queryLog>>

(* ------------------------------ helpers -------------------------------- *)
Max(a, b) == IF a >= b THEN a ELSE b
Min(a, b) == IF a <= b THEN a ELSE b

RECURSIVE SumSeq(_)
SumSeq(s) == IF s = <<>> THEN 0 ELSE s[1] + SumSeq(Tail(s))

\* s[:n]
Take(s, n) == SubSeq(s, 1, Min(n, Len(s)))

\* np.isin(a, b): one flag per position of a
IsIn(a, b) == [j \in 1..Len(a) |-> \E m \in 1..Len(b) : b[m] = a[j]]

\* np.sum over a boolean array
CountTrue(flags) == Cardinality({j \in 1..Len(flags) : flags[j]})

\* np.sum(np.isin(nn_indices[:k], gt_indices[i][:k])) / k, as <<hits, k>>
Recall(nn, gt, kk) == <<CountTrue(IsIn(Take(nn, kk), Take(gt, kk))), kk>>

\* np.mean over a list of recall samples of one cutoff, as <<sum, k * n>>
MeanRecall(rs, kk) == <<SumSeq([j \in 1..Len(rs) |-> rs[j][1]]), kk * Len(rs)>>

\* np.mean over the latencies, as <<sum, n>>
MeanTime(ts) == <<SumSeq(ts), Len(ts)>>

NoRes == [keys |-> {}, memory |-> -1, time |-> -1, recall_mean |-> <<>>,
          query_mean |-> <<>>, index_kwargs |-> EmptyMap]
NoRet == [memory |-> -1, time |-> -1]
NewThread == [pc |-> "unstarted", peak_memory |-> 0]

(* ------------------------------- Init ---------------------------------- *)
InitMeasure ==
  /\ ret = NoRet
  /\ execution_time = -1
  /\ ncalls = 0
  /\ stop_event = 0
  /\ peak_memory_usage = 0
  /\ events = [c \in Calls |-> FALSE]
  /\ cells = [c \in Calls |-> 0]
  /\ threads = [c \in Calls |-> NewThread]
  /\ samples = [c \in Calls |-> <<>>]
  /\ stopAt = [c \in Calls |-> -1]
  /\ cellWrites = [c \in Calls |-> <<>>]
  /\ eventReads = [c \in Calls |-> {}]
  /\ buildArgs = <<>>

InitQuery ==
  /\ gt_indices = <<>>
  /\ i = 0
  /\ nn_indices = <<>>
  /\ recalls = [kk \in {k_values[1], k_values[2]} |-> <<>>]
  /\ query_times = <<>>
  /\ queryLog = <<>>

\* the script has parsed its arguments and calls benchmark
Init ==
  /\ mpc = "benchmark"
  /\ error = "none"
  /\ index_kwargs \in UserMaps
  /\ userKwargs = index_kwargs
  /\ k = 0
  /\ res = NoRes
  /\ csv = FALSE
  /\ InitMeasure
  /\ InitQuery

(* ------------------- monitor_memory (sampler thread) ------------------- *)
\* mutant of SamplerTest: a loop test that never sees the stop signal
SamplerTestBlind(c) ==
  /\ threads[c].pc = "test"
  /\ Len(samples[c]) < MaxSamples
  /\ threads' = [threads EXCEPT ![c].pc = "sample"]
  /\ eventReads' = [eventReads EXCEPT ![c] = @ \cup {stop_event}]
  /\ UNCHANGED <<mpc, error, driverVars, queryVars, ret, execution_time, ncalls,
                 stop_event, peak_memory_usage, events, cells, samples, stopAt,
                 cellWrites, buildArgs>>

\* line 17: the loop test reads the global stop_event as bound at that moment.
\* A thread is followed for MaxSamples iterations while the Event is clear.
SamplerTest(c) ==
  /\ threads[c].pc = "test"
  /\ events[stop_event] \/ Len(samples[c]) < MaxSamples
  /\ threads' = [threads EXCEPT ![c].pc = IF events[stop_event] THEN "write" ELSE "sample"]
  /\ eventReads' = [eventReads EXCEPT ![c] = @ \cup {stop_event}]
  /\ UNCHANGED <<mpc, error, driverVars, queryVars, ret, execution_time, ncalls,
                 stop_event, peak_memory_usage, events, cells, samples, stopAt,
                 cellWrites, buildArgs>>

\* lines 18-20: one reading, the running maximum, the sleep
SamplerSample(c) ==
  /\ threads[c].pc = "sample"
  /\ \E mem \in Mem :
       /\ threads' = [threads EXCEPT ![c] = [pc |-> "test", peak_memory |-> Max(@.peak_memory, mem)]]
       /\ samples' = [samples EXCEPT ![c] = Append(@, mem)]
  /\ UNCHANGED <<mpc, error, driverVars, queryVars, ret, execution_time, ncalls,
                 stop_event, peak_memory_usage, events, cells, stopAt,
                 cellWrites, eventReads, buildArgs>>

\* line 21: the store goes to the list the global peak_memory_usage names now
SamplerWrite(c) ==
  /\ threads[c].pc = "write"
  /\ cells' = [cells EXCEPT ![peak_memory_usage] = threads[c].peak_memory]
  /\ cellWrites' = [cellWrites EXCEPT ![peak_memory_usage] = Append(@, c)]
  /\ threads' = [threads EXCEPT ![c].pc = "done"]
  /\ UNCHANGED <<mpc, error, driverVars, queryVars, ret, execution_time, ncalls,
                 stop_event, peak_memory_usage, events, samples, stopAt,
                 eventReads, buildArgs>>

Sampler == \E c \in Calls : SamplerTest(c) \/ SamplerSample(c) \/ SamplerWrite(c)

(* -------------------- measure_peak_memory_and_time --------------------- *)
\* line 27: peak_memory_usage = [0]
BindCell ==
  /\ mpc = "measure"
  /\ ncalls' = ncalls + 1
  /\ peak_memory_usage' = ncalls + 1
  /\ cells' = [cells EXCEPT ![ncalls + 1] = 0]
  /\ mpc' = "bind_event"
  /\ UNCHANGED <<error, driverVars, queryVars, ret, execution_time, stop_event,
                 events, threads, samples, stopAt, cellWrites, eventReads,
                 buildArgs>>

\* line 28: stop_event = threading.Event()
BindEvent ==
  /\ mpc = "bind_event"
  /\ stop_event' = ncalls
  /\ events' = [events EXCEPT ![ncalls] = FALSE]
  /\ mpc' = "start"
  /\ UNCHANGED <<error, driverVars, queryVars, ret, execution_time, ncalls,
                 peak_memory_usage, cells, threads, samples, stopAt,
                 cellWrites, eventReads, buildArgs>>

\* lines 30-31, and lines 15-16 of the new thread
StartThread ==
  /\ mpc = "start"
  /\ threads' = [threads EXCEPT ![ncalls] = [pc |-> "test", peak_memory |-> 0]]
  /\ mpc' = "func"
  /\ UNCHANGED <<error, driverVars, queryVars, ret, execution_time, ncalls,
                 stop_event, peak_memory_usage, events, cells, samples, stopAt,
                 cellWrites, eventReads, buildArgs>>

\* mutant of AfterFunc: the exception of func is swallowed
AfterFuncSwallowed(ok) == "set"

\* where the primary thread goes when func returns, or raises (no handler)
AfterFunc(ok) == IF ok THEN "set" ELSE "raised"

\* lines 33-35: func(*args, **kwargs) returns or raises
RunFunc ==
  /\ mpc = "func"
  /\ buildArgs' = Append(buildArgs, [k |-> k, kwargs |-> index_kwargs])
  /\ \E ok \in BOOLEAN, d \in Durations :
       /\ mpc' = AfterFunc(ok)
       /\ execution_time' = IF ok THEN d ELSE execution_time
       /\ error' = IF ok THEN error ELSE "func"
  /\ UNCHANGED <<driverVars, queryVars, ret, ncalls, stop_event,
                 peak_memory_usage, events, cells, threads, samples, stopAt,
                 cellWrites, eventReads>>

\* line 37: stop_event.set()
SetStop ==
  /\ mpc = "set"
  /\ events' = [events EXCEPT ![stop_event] = TRUE]
  /\ stopAt' = [stopAt EXCEPT ![stop_event] = Len(samples[stop_event])]
  /\ mpc' = "join"
  /\ UNCHANGED <<error, driverVars, queryVars, ret, execution_time, ncalls,
                 stop_event, peak_memory_usage, cells, threads, samples,
                 cellWrites, eventReads, buildArgs>>

\* mutant of Joined: a join that does not wait
JoinedAtOnce == TRUE

\* monitor_thread.join() returns once the thread has terminated
Joined == threads[ncalls].pc = "done"

\* line 38
Join ==
  /\ mpc = "join"
  /\ Joined
  /\ mpc' = "read"
  /\ UNCHANGED <<error, driverVars, queryVars, measureVars>>

\* lines 40-43
ReadResult ==
  /\ mpc = "read"
  /\ ret' = [memory |-> cells[peak_memory_usage], time |-> execution_time]
  /\ mpc' = "returned"
  /\ UNCHANGED <<error, driverVars, queryVars, execution_time, ncalls,
                 stop_event, peak_memory_usage, events, cells, threads,
                 samples, stopAt, cellWrites, eventReads, buildArgs>>

Measure == BindCell \/ BindEvent \/ StartThread \/ RunFunc \/ SetStop \/ Join \/ ReadResult

(* ------------------------------ benchmark ------------------------------ *)
\* mutant of WidthOf: the user's "k" is ignored
WidthOfDefault(kw) == DefaultK

\* lines 62-66: the neighbour-list width, and the options left for **index_kwargs
WidthOf(kw) == IF "k" \in DOMAIN kw THEN kw["k"] ELSE DefaultK
Without(kw, key) == [x \in DOMAIN kw \ {key} |-> kw[x]]
\* kw[key] = v
With(kw, key, v) == [x \in DOMAIN kw \cup {key} |-> IF x = key THEN v ELSE kw[x]]

\* lines 47-66
PopK ==
  /\ mpc = "benchmark"
  /\ res' = [res EXCEPT !.keys = {"index_backend", "dataset_name"}]
  /\ k' = WidthOf(index_kwargs)
  /\ index_kwargs' = Without(index_kwargs, "k")
  /\ mpc' = "call"
  /\ UNCHANGED <<error, csv, userKwargs, queryVars, measureVars>>

\* lines 67-74: binding k=k and **index_kwargs; a keyword given twice is a
\* TypeError at the call
CallMeasure ==
  /\ mpc = "call"
  /\ mpc' = IF "k" \in DOMAIN index_kwargs THEN "raised" ELSE "measure"
  /\ error' = IF "k" \in DOMAIN index_kwargs THEN "TypeError" ELSE error
  /\ UNCHANGED <<driverVars, queryVars, measureVars>>

\* the options map as reported: line 76
Reported(kw, width) == With(kw, "k", width)

\* lines 67 (res.update) and 75-77
UpdateRes ==
  /\ mpc = "returned"
  /\ res' = [res EXCEPT !.memory = ret.memory, !.time = ret.time,
                        !.keys = @ \cup {"Index construction memory [MB]",
                                         "Index construction time [s]"}]
  /\ index_kwargs' = Reported(index_kwargs, k)
  /\ mpc' = "load"
  /\ UNCHANGED <<error, k, csv, userKwargs, queryVars, measureVars>>

\* lines 80-88: the ground truth is loaded, the sample lists start empty
LoadData(data) ==
  /\ mpc = "load"
  /\ gt_indices' \in data
  /\ recalls' = [kk \in {k_values[1], k_values[2]} |-> <<>>]
  /\ query_times' = <<>>
  /\ mpc' = "loop"
  /\ UNCHANGED <<error, driverVars, measureVars, i, nn_indices, queryLog>>

\* where the primary thread goes when get_anns returns, or raises (no handler)
AfterQuery(ok) == IF ok THEN "score" ELSE "raised"

\* lines 90-97: the next query of range(len(gt_indices)) is issued and timed
Query(answers) ==
  /\ mpc = "loop"
  /\ i < Len(gt_indices)
  /\ \E ok \in BOOLEAN, nn \in answers, d \in Durations :
       /\ mpc' = AfterQuery(ok)
       /\ nn_indices' = IF ok THEN nn ELSE nn_indices
       /\ query_times' = IF ok THEN Append(query_times, d) ELSE query_times
       /\ error' = IF ok THEN error ELSE "get_anns"
       /\ queryLog' = Append(queryLog, IF ok THEN [q |-> i, ok |-> TRUE, nn |-> nn, dur |-> d]
                                             ELSE [q |-> i, ok |-> FALSE, nn |-> <<>>, dur |-> 0])
  /\ UNCHANGED <<driverVars, measureVars, gt_indices, i, recalls>>

\* mutant of GtRow: every query is scored against the first row
GtRowFirst(q) == gt_indices[1]

\* gt_indices[q], the row query q is scored against
GtRow(q) == gt_indices[q + 1]

\* lines 99-102, and the loop's step to the next i
Score ==
  /\ mpc = "score"
  /\ recalls' = [kk \in DOMAIN recalls |-> Append(recalls[kk], Recall(nn_indices, GtRow(i), kk))]
  /\ k' = k_values[Len(k_values)]
  /\ i' = i + 1
  /\ mpc' = "loop"
  /\ UNCHANGED <<error, index_kwargs, res, csv, userKwargs, measureVars,
                 gt_indices, nn_indices, query_times, queryLog>>

\* lines 104-115: the loop is exhausted, the statistics go into res
Stats ==
  /\ mpc = "loop"
  /\ i >= Len(gt_indices)
  /\ k' = k_values[Len(k_values)]
  /\ res' = [res EXCEPT !.recall_mean = [kk \in DOMAIN recalls |-> MeanRecall(recalls[kk], kk)],
                        !.query_mean = MeanTime(query_times),
                        !.index_kwargs = index_kwargs,
                        !.keys = @ \cup {"Recall mean", "Recall std", "Query time mean [s]",
                                         "Query time std [s]", "index_kwargs"}]
  /\ mpc' = "report"
  /\ UNCHANGED <<error, index_kwargs, csv, userKwargs, measureVars, queryVars>>

(* ------------------------------ __main__ ------------------------------- *)
\* lines 134-145: the record is printed and written as a CSV row
Report ==
  /\ mpc = "report"
  /\ csv' = TRUE
  /\ mpc' = "exit"
  /\ UNCHANGED <<error, index_kwargs, k, res, userKwargs, measureVars, queryVars>>

(* --------------------------- specifications ---------------------------- *)
\* the script: one benchmark run
Next ==
  \/ PopK
  \/ CallMeasure
  \/ Measure
  \/ Sampler
  \/ UpdateRes
  \/ LoadData(DriverGT)
  \/ Query(NNLists)
  \/ Score
  \/ Stats
  \/ Report

Spec == Init /\ [][Next]_vars

\* the same, with both threads scheduled fairly
Primary ==
  \/ PopK
  \/ CallMeasure
  \/ Measure
  \/ UpdateRes
  \/ LoadData(DriverGT)
  \/ Query(NNLists)
  \/ Score
  \/ Stats
  \/ Report

FairSpec == Init /\ [][Next]_vars /\ WF_vars(Primary) /\ WF_vars(Sampler)

(* ----------------------- the query loop on its own ---------------------- *)
\* benchmark at line 80 after a build with the default options: the sampler
\* of the build took one reading, wrote it and terminated
BuildDone ==
  /\ error = "none"
  /\ index_kwargs = Reported(EmptyMap, DefaultK)
  /\ userKwargs = EmptyMap
  /\ k = DefaultK
  /\ res = [NoRes EXCEPT !.keys = {"index_backend", "dataset_name",
                                   "Index construction memory [MB]",
                                   "Index construction time [s]"},
                         !.memory = 1, !.time = 0]
  /\ csv = FALSE
  /\ ret = [memory |-> 1, time |-> 0]
  /\ execution_time = 0
  /\ ncalls = 1
  /\ stop_event = 1
  /\ peak_memory_usage = 1
  /\ events = [c \in Calls |-> c = 1]
  /\ cells = [c \in Calls |-> IF c = 1 THEN 1 ELSE 0]
  /\ threads = [c \in Calls |-> IF c = 1 THEN [pc |-> "done", peak_memory |-> 1] ELSE NewThread]
  /\ samples = [c \in Calls |-> IF c = 1 THEN <<1>> ELSE <<>>]
  /\ stopAt = [c \in Calls |-> IF c = 1 THEN 1 ELSE -1]
  /\ cellWrites = [c \in Calls |-> IF c = 1 THEN <<1>> ELSE <<>>]
  /\ eventReads = [c \in Calls |-> IF c = 1 THEN {1} ELSE {}]
  /\ buildArgs = <<[k |-> DefaultK, kwargs |-> EmptyMap]>>

InitLoop ==
  /\ mpc = "load"
  /\ BuildDone
  /\ InitQuery

NextQuery ==
  \/ LoadData(GTData)
  \/ Query(NNLists)
  \/ Score
  \/ Stats
  \/ Report

SpecQuery == InitLoop /\ [][NextQuery]_vars

(* ------------------ the recall computation on its own ------------------ *)
\* benchmark at line 99 of the first query: get_anns has returned nn_indices
InitScore ==
  /\ mpc = "score"
  /\ BuildDone
  /\ gt_indices \in {<<gt>> : gt \in RecallGT}
  /\ nn_indices \in RecallNN
  /\ i = 0
  /\ recalls = [kk \in {k_values[1], k_values[2]} |-> <<>>]
  /\ query_times = <<0>>
  /\ queryLog = <<[q |-> 0, ok |-> TRUE, nn |-> nn_indices, dur |-> 0]>>

NextRecall == Score \/ Stats

SpecRecall == InitScore /\ [][NextRecall]_vars

(* ---------- measure_peak_memory_and_time called again and again -------- *)
\* a caller that calls measure_peak_memory_and_time again after it returned
\* or raised
CallAgain ==
  /\ mpc \in {"returned", "raised"}
  /\ ncalls < MaxCalls
  /\ mpc' = "measure"
  /\ error' = "none"
  /\ UNCHANGED <<driverVars, queryVars, measureVars>>

InitCalls ==
  /\ mpc = "measure"
  /\ error = "none"
  /\ index_kwargs = EmptyMap
  /\ userKwargs = EmptyMap
  /\ k = DefaultK
  /\ res = NoRes
  /\ csv = FALSE
  /\ InitMeasure
  /\ InitQuery

NextCalls == Measure \/ Sampler \/ CallAgain

SpecCalls == InitCalls /\ [][NextCalls]_vars

(* ------------------------------- claims -------------------------------- *)
\* the largest reading of a sampler's history; 0, the value the running
\* maximum starts from, when it took none
RECURSIVE SeqMax(_)
SeqMax(s) == IF s = <<>> THEN 0 ELSE Max(s[1], SeqMax(Tail(s)))

Range(s) == {s[j] : j \in 1..Len(s)}

\* measure_peak_memory_and_time has returned its dict
HasReturned == ret # NoRet

\* C1: once the wrapped operation has raised and the exception has reached
\* the caller, the stop signal is set and the sampler thread has terminated.
C1_SamplerStopsOnFailure ==
  (mpc = "raised" /\ error = "func") =>
    (events[stop_event] /\ threads[ncalls].pc = "done")

\* C2: when the wrapped operation completes normally, the result cell is
\* written only after the stop signal is set, exactly once and by the call's
\* own sampler; the primary thread reads it only after that write (after the
\* join); and the value returned is the maximum of the readings the sampler
\* took (0 when it took none).
C2_ReadAfterWrite ==
  /\ \A c \in Calls : cellWrites[c] # <<>> => (events[c] /\ cellWrites[c] = <<c>>)
  /\ mpc = "read" => (cellWrites[ncalls] = <<ncalls>> /\ threads[ncalls].pc = "done")
  /\ HasReturned => /\ cellWrites[ncalls] = <<ncalls>>
                    /\ ret.memory = SeqMax(samples[ncalls])

C2_Witness ==
  /\ HasReturned
  /\ Len(samples[1]) = 2
  /\ samples[1][1] > samples[1][2]
  /\ ret.memory = samples[1][1]

\* C3: after the stop signal is set the sampler takes at most one further
\* reading; no sampler thread is alive once the call has returned; and under
\* fair scheduling a call whose operation completed normally returns.
C3_StopsPromptly ==
  /\ [](\A c \in Calls : stopAt[c] >= 0 => Len(samples[c]) <= stopAt[c] + 1)
  /\ [](HasReturned => \A c \in Calls : threads[c].pc \in {"unstarted", "done"})
  /\ (mpc = "set") ~> HasReturned

C3_Witness ==
  /\ HasReturned
  /\ stopAt[1] >= 0
  /\ Len(samples[1]) = stopAt[1] + 1

\* C4: when the wrapped operation finishes before one sampling interval has
\* elapsed (the sampler had taken at most one reading when the stop signal
\* was set), the call returns the value of a reading the sampler took.
C4_NoOpReportsASample ==
  (HasReturned /\ stopAt[ncalls] <= 1) => ret.memory \in Range(samples[ncalls])

\* C6 as stated: when build_ann_index fails, the sampler thread has not been
\* started, get_anns is never called and no CSV file is written.
C6_NothingStartedOnBuildFailure ==
  error = "func" =>
    /\ \A c \in Calls : threads[c].pc = "unstarted"
    /\ queryLog = <<>>
    /\ ~csv

\* C6 as amended: when build_ann_index fails, the exception leaves the primary
\* thread before any query phase: get_anns is never called and no CSV file is
\* written, while the sampler thread of the build has been started.
C6_NoQueryNoCsvOnBuildFailure ==
  error = "func" =>
    /\ mpc = "raised"
    /\ threads[1].pc # "unstarted"
    /\ queryLog = <<>>
    /\ ~csv
    /\ res.keys \cap {"Recall mean", "index_kwargs"} = {}

C6_Witness ==
  /\ error = "func"
  /\ mpc = "raised"
  /\ samples[1] # <<>>

\* C7: build_ann_index gets the user's "k" when there is one and 10 otherwise,
\* once (the remaining options hold no "k", so the call is no TypeError), and
\* the returned record's index_kwargs holds every user option and "k" bound
\* to the width of the build.
C7_EffectiveWidth ==
  /\ error # "TypeError"
  /\ Len(buildArgs) <= 1
  /\ \A j \in 1..Len(buildArgs) :
       /\ buildArgs[j].k = IF "k" \in DOMAIN userKwargs THEN userKwargs["k"] ELSE 10
       /\ DOMAIN buildArgs[j].kwargs = DOMAIN userKwargs \ {"k"}
       /\ \A key \in DOMAIN buildArgs[j].kwargs : buildArgs[j].kwargs[key] = userKwargs[key]
  /\ "index_kwargs" \in res.keys =>
       /\ DOMAIN res.index_kwargs = DOMAIN userKwargs \cup {"k"}
       /\ \A key \in DOMAIN userKwargs : res.index_kwargs[key] = userKwargs[key]
       /\ res.index_kwargs["k"] = buildArgs[1].k

C7_Witness ==
  /\ "index_kwargs" \in res.keys
  /\ DOMAIN userKwargs = {"k", "n_trees"}
  /\ userKwargs["k"] = 5
  /\ res.index_kwargs["k"] = 5
  /\ k = 10
  /\ Len(recalls[10]) = 1

\* C8: queries are issued one at a time in the order 0, 1, ..., N-1, query i
\* is scored against ground-truth entry i, the i-th latency is that of query
\* i, and when the loop has ended every list holds exactly N samples.
C8_QueryOrder ==
  LET N == Len(gt_indices) IN
  /\ Len(queryLog) <= N
  /\ \A j \in 1..Len(queryLog) : queryLog[j].q = j - 1
  /\ \A j \in 1..Len(query_times) : queryLog[j].ok /\ query_times[j] = queryLog[j].dur
  /\ \A kk \in DOMAIN recalls :
       /\ Len(recalls[kk]) = i
       /\ Len(recalls[kk]) \in {Len(query_times), Len(query_times) - 1}
       /\ \A j \in 1..Len(recalls[kk]) :
            recalls[kk][j] = Recall(queryLog[j].nn, gt_indices[j], kk)
  /\ mpc \in {"report", "exit"} =>
       /\ Len(queryLog) = N
       /\ Len(query_times) = N
       /\ \A kk \in DOMAIN recalls : Len(recalls[kk]) = N

C8_Witness ==
  /\ mpc = "report"
  /\ Len(gt_indices) = 2
  /\ gt_indices[1] # gt_indices[2]
  /\ queryLog[1].nn = queryLog[2].nn
  /\ recalls[1][1] # recalls[1][2]
  /\ query_times[1] # query_times[2]

\* C9: when get_anns fails on one query and the primary thread has stopped
\* on that exception, every query has still been issued and the statistics
\* are in the result record.
C9_QueryFailureTolerated ==
  (mpc = "raised" /\ error = "get_anns") =>
    /\ Len(queryLog) = Len(gt_indices)
    /\ "Recall mean" \in res.keys

\* C10: over a sequence of calls, a result cell is written only by its own
\* call's sampler, a sampler tests only its own call's stop signal, and a
\* call returns the maximum of its own sampler's readings.
C10_NoStateSurvives ==
  /\ \A c \in Calls : Range(cellWrites[c]) \subseteq {c}
  /\ \A c \in Calls : eventReads[c] \subseteq {c}
  /\ mpc = "returned" => ret.memory = SeqMax(samples[ncalls])

\* C5: the recall sample recorded for a query and a cutoff k is
\* |set(returned[:k]) \cap set(ground_truth[:k])| / k, and is at most 1.
C5_RecallIsSetOverlap ==
  \A kk \in DOMAIN recalls : \A j \in 1..Len(recalls[kk]) :
    /\ recalls[kk][j] = <<Cardinality(Range(Take(queryLog[j].nn, kk))
                                       \cap Range(Take(gt_indices[j], kk))), kk>>
    /\ recalls[kk][j][1] <= recalls[kk][j][2]
====
